---- MODULE Spec2Model ----
(***************************************************************************)
(* Model of repobuilder.Job (src/repobuilder/job.go): the publish job that *)
(* opens a bucket, fans out one worker per repository path, downloads the  *)
(* mirror, injects and signs packages, rebuilds metadata and uploads.      *)
(***************************************************************************)
EXTENDS Integers, Sequences, FiniteSets, TLC

\* ------------------------------------------------------------------ bounds
NumPaths == 2   \* at most this many entries in j.Distro.Repos
MaxPkgs == 2    \* at most this many entries in j.PackagePaths
NumCallers == 2 \* goroutines calling the job's methods outside Run
MaxCalls == 4   \* method calls they make in all

\* ------------------------------------------------------------ input domains
DEB == "deb"
RPM == "rpm"

Paths == 1..NumPaths

Callers == 1..NumCallers

\* dependency.AlwaysRun, the type name of the always-run manager
AlwaysRun == "always"

\* dependency.NewAlways()
NewAlways == [type |-> AlwaysRun, inst |-> "built"]

\* the managers a caller can hand to SetDependency
Managers == [type : {AlwaysRun, "create-file"}, inst : {"given"}]

\* a package artifact path: directory, base name, extension
Pkgs == {[dir |-> "build", base |-> "a", ext |-> "rpm"],
         [dir |-> "build", base |-> "b", ext |-> "rpm"],
         [dir |-> "build", base |-> "a", ext |-> "deb"]}

RECURSIVE SeqsUpTo(_, _)
SeqsUpTo(S, n) ==
    IF n = 0 THEN {<<>>}
    ELSE LET shorter == SeqsUpTo(S, n - 1)
         IN shorter \cup {Append(s, x) : s \in {t \in shorter : Len(t) = n - 1}, x \in S}

PackageLists == SeqsUpTo(Pkgs, MaxPkgs)

JobTypeNames == {"build-deb-repo", "build-rpm-repo", "build-repo"}

\* curator.MongoDBVersion, seen through the predicates job.go calls
Releases ==
    [dev : BOOLEAN, rc : BOOLEAN, stable : BOOLEAN, devSeries : BOOLEAN, series : {"3.0", "3.2"}]

Range(s) == {s[k] : k \in DOMAIN s}

VARIABLES
    job,          \* the fields of Job that Run only reads
    env,          \* the process environment signFile reads
    Errors,       \* j.Errors
    Output,       \* j.Output
    IsComplete,   \* j.IsComplete
    workingDirs,  \* j.workingDirs
    bucket,       \* the bucket session: state and calls made on it
    run,          \* the goroutine executing Run: position and wait group
    w,            \* one record per path worker
    D,            \* j.D, the dependency manager
    mutex,        \* j.mutex: 0 when free, else the caller holding the write lock
    cl,           \* the callers of the job's methods outside Run
    passed,       \* the non-nil errors callers have passed to addError
    last          \* the last completed method call, and what it returned

\* the state only the callers of the job's methods touch
api == <<D, mutex, cl, passed, last>>

vars == <<job, env, Errors, Output, IsComplete, workingDirs, bucket, run, w,
          D, mutex, cl, passed, last>>

\* ------------------------------------------------------------ job methods
\* Completed()
Completed == IsComplete

\* hasErrors() that reports no error whatever the list holds
hasErrors_Never == FALSE

\* hasErrors()
hasErrors == Len(Errors) # 0

\* the nil error
NilErr == [op |-> "nil"]

\* errors.Wrapf(err, "<op> ...") as recorded by the worker of path p (0: Run)
Wrap(op, p) == [op |-> op, path |-> p]

\* Error(): nil, or the combined error of the list
Error == IF Len(Errors) = 0 THEN NilErr ELSE [op |-> "combined", msgs |-> Errors]

\* the effect of addError(err) on j.Errors
addError(errs, err) == IF err # NilErr THEN Append(errs, err) ELSE errs

\* strings.HasSuffix(pkg, ".deb")
HasSuffixDeb(pkg) == pkg.ext = "deb"

\* filepath.Base(pkg)
Base(pkg) == <<pkg.base, pkg.ext>>

\* injectNewPackages that sends every release to "testing"
Route_TestingOnly(r) == <<"testing">>

\* the sub-repositories injectNewPackages hands to injectPackage, in order
Route(r) ==
    IF r.dev \/ r.rc
    THEN <<"testing">>
    ELSE <<r.series>>
         \o (IF r.stable THEN <<"stable">> ELSE <<>>)
         \o (IF r.devSeries THEN <<"unstable">> ELSE <<>>)

\* ------------------------------------------------------------------- Init
NewWorker ==
    [pc |-> "idle", snap |-> <<>>, fs |-> {}, dirs |-> {},
     todo |-> <<>>, repos |-> <<>>, changed |-> <<>>, injErrs |-> 0,
     dest |-> "", i |-> 0, lcatch |-> 0, resolved |-> "unset", lwg |-> 0,
     linked |-> {}, sign |-> <<>>, signCalls |-> <<>>, execs |-> 0, signErrs |-> 0,
     hist |-> <<>>,
     rwg |-> 0, rtask |-> <<>>,
     invoked |-> <<>>, sawErrors |-> "unset", outcome |-> "none"]

\* a goroutine that calls the job's methods: where it is, the error it is
\* adding, and the slice it has read
NewCaller == [pc |-> "idle", err |-> NilErr, snap |-> <<>>]

\* buildRepoJob() followed by the caller filling in the public fields
NewJob(cfg) ==
    /\ job = cfg.job
    /\ env = cfg.env
    /\ Errors = <<>>
    /\ Output = <<>>
    /\ IsComplete = FALSE
    /\ workingDirs = <<>>
    /\ bucket = [state |-> "new", opens |-> 0, closes |-> 0, openResult |-> "none"]
    /\ run = [pc |-> "open", next |-> 1, wg |-> 0, defers |-> <<>>, log |-> "none"]
    /\ w = [p \in Paths |-> NewWorker]
    /\ D = NewAlways
    /\ mutex = 0
    /\ cl = [c \in Callers |-> NewCaller]
    /\ passed = <<>>
    /\ last = [n |-> 0, by |-> 0, op |-> "none", arg |-> NilErr, ret |-> NilErr]

\* -------------------------------------------------------------------- Run
\* Run without the return of job.go 300: a failed Open is recorded and the
\* fan-out starts all the same
RunOpen_NoReturn ==
    /\ run.pc = "open"
    /\ \E ok \in BOOLEAN :
        /\ bucket' = [bucket EXCEPT !.opens = @ + 1,
                                    !.state = IF ok THEN "open" ELSE "new",
                                    !.openResult = IF ok THEN "ok" ELSE "failed"]
        /\ Errors' = IF ok THEN Errors ELSE addError(Errors, Wrap("opening bucket", 0))
        /\ run' = [run EXCEPT !.pc = "spawn", !.defers = <<"Close", "markComplete">>]
    /\ UNCHANGED <<api, job, env, Output, IsComplete, workingDirs, w>>

\* job.go 293-303: open the bucket, defer Close; on failure record and return
RunOpen ==
    /\ run.pc = "open"
    /\ \E ok \in BOOLEAN :
        /\ bucket' = [bucket EXCEPT !.opens = @ + 1,
                                    !.state = IF ok THEN "open" ELSE "new",
                                    !.openResult = IF ok THEN "ok" ELSE "failed"]
        /\ IF ok
           THEN /\ run' = [run EXCEPT !.pc = "spawn",
                                      !.defers = <<"Close", "markComplete">>]
                /\ UNCHANGED Errors
           ELSE /\ Errors' = addError(Errors, Wrap("opening bucket", 0))
                /\ run' = [run EXCEPT !.pc = "return", !.defers = <<"Close">>]
    /\ UNCHANGED <<api, job, env, Output, IsComplete, workingDirs, w>>

\* job.go 306-308, 377: wg.Add(1); go func(...) for the next entry of Distro.Repos
RunSpawn ==
    /\ run.pc = "spawn"
    /\ run.next <= job.nRepos
    /\ run' = [run EXCEPT !.next = @ + 1, !.wg = @ + 1]
    /\ w' = [w EXCEPT ![run.next].pc = "start"]
    /\ UNCHANGED <<api, job, env, Errors, Output, IsComplete, workingDirs, bucket>>

\* Run without the join of job.go 379: it goes on once the workers are spawned
RunWait_NoJoin ==
    /\ run.pc = "spawn"
    /\ run.next > job.nRepos
    /\ run' = [run EXCEPT !.pc = "return",
                          !.log = IF hasErrors THEN "warning" ELSE "notice"]
    /\ UNCHANGED <<api, job, env, Errors, Output, IsComplete, workingDirs, bucket, w>>

\* job.go 379-385: wg.Wait(), then the closing log line
RunWait ==
    /\ run.pc = "spawn"
    /\ run.next > job.nRepos
    /\ run.wg = 0
    /\ run' = [run EXCEPT !.pc = "return",
                          !.log = IF hasErrors THEN "warning" ELSE "notice"]
    /\ UNCHANGED <<api, job, env, Errors, Output, IsComplete, workingDirs, bucket, w>>

\* markComplete called where job.go 303 defers it, before the fan-out
RunMarkComplete_NotDeferred ==
    /\ run.pc \in {"spawn", "return"}
    /\ run.defers # <<>>
    /\ run.defers[Len(run.defers)] = "markComplete"
    /\ IsComplete' = TRUE
    /\ run' = [run EXCEPT !.defers = SubSeq(@, 1, Len(@) - 1)]
    /\ UNCHANGED <<api, job, env, Errors, Output, workingDirs, bucket, w>>

\* job.go 80-82, 303: the deferred markComplete
RunMarkComplete ==
    /\ run.pc = "return"
    /\ run.defers # <<>>
    /\ run.defers[Len(run.defers)] = "markComplete"
    /\ IsComplete' = TRUE
    /\ run' = [run EXCEPT !.defers = SubSeq(@, 1, Len(@) - 1)]
    /\ UNCHANGED <<api, job, env, Errors, Output, workingDirs, bucket, w>>

\* job.go 297: the deferred bucket.Close()
RunClose ==
    /\ run.pc = "return"
    /\ run.defers # <<>>
    /\ run.defers[Len(run.defers)] = "Close"
    /\ bucket' = [bucket EXCEPT !.closes = @ + 1, !.state = "closed"]
    /\ run' = [run EXCEPT !.defers = SubSeq(@, 1, Len(@) - 1)]
    /\ UNCHANGED <<api, job, env, Errors, Output, IsComplete, workingDirs, w>>

\* Run returns to its caller once the deferred calls have run
RunReturn ==
    /\ run.pc = "return"
    /\ run.defers = <<>>
    /\ run' = [run EXCEPT !.pc = "returned"]
    /\ UNCHANGED <<api, job, env, Errors, Output, IsComplete, workingDirs, bucket, w>>

\* ------------------------------------------------------------ path worker
\* a worker that leaves without the deferred wg.Done()
Leave_NoDone(p, how, rec) ==
    /\ w' = [w EXCEPT ![p] = [NewWorker EXCEPT !.pc = "done", !.outcome = how,
                                               !.fs = rec.fs,
                                               !.invoked = rec.invoked,
                                               !.repos = rec.repos,
                                               !.sawErrors = rec.sawErrors,
                                               !.signErrs = rec.signErrs,
                                               !.rtask = rec.rtask]]
    /\ UNCHANGED run

\* a worker leaves its goroutine: the deferred wg.Done() of job.go 310
Leave(p, how, rec) ==
    /\ w' = [w EXCEPT ![p] = [NewWorker EXCEPT !.pc = "done", !.outcome = how,
                                               !.fs = rec.fs,
                                               !.invoked = rec.invoked,
                                               !.repos = rec.repos,
                                               !.sawErrors = rec.sawErrors,
                                               !.signErrs = rec.signErrs,
                                               !.rtask = rec.rtask]]
    /\ run' = [run EXCEPT !.wg = @ - 1]

\* job.go 312-315: the read half of j.workingDirs = append(j.workingDirs, local)
WorkerStart(p) ==
    /\ w[p].pc = "start"
    /\ w' = [w EXCEPT ![p].pc = "mkdir", ![p].snap = workingDirs]
    /\ UNCHANGED <<api, job, env, Errors, Output, IsComplete, workingDirs, bucket, run>>

\* job.go 315-321: the write half of the append, then os.MkdirAll(local)
WorkerMkdir(p) ==
    /\ w[p].pc = "mkdir"
    /\ workingDirs' = Append(w[p].snap, p)
    /\ \E ok \in BOOLEAN :
        LET rec == [w[p] EXCEPT !.snap = <<>>, !.invoked = Append(@, "MkdirAll")]
        IN IF ok
           THEN /\ w' = [w EXCEPT ![p] = [rec EXCEPT !.pc = "syncFrom"]]
                /\ UNCHANGED <<Errors, run>>
           ELSE /\ Errors' = addError(Errors, Wrap("creating directory", p))
                /\ Leave(p, "failed", rec)
    /\ UNCHANGED <<api, job, env, Output, IsComplete, bucket>>


\* the download step that records a failure and carries on to the injection
WorkerSyncFrom_NoReturn(p) ==
    /\ w[p].pc = "syncFrom"
    /\ IF job.DryRun
       THEN /\ w' = [w EXCEPT ![p].pc = "inject"]
            /\ UNCHANGED Errors
       ELSE \E ok \in {b \in BOOLEAN : b => bucket.state = "open"} :
            /\ w' = [w EXCEPT ![p].pc = "inject",
                              ![p].invoked = Append(@, "SyncFrom"),
                              ![p].fs = IF ok THEN job.remote ELSE @,
                              ![p].dirs = IF ok THEN {f[1] : f \in job.remote} ELSE @]
            /\ Errors' = IF ok THEN Errors ELSE addError(Errors, Wrap("sync from", p))
    /\ UNCHANGED <<api, job, env, Output, IsComplete, workingDirs, bucket, run>>

\* job.go 323-332: dry run logs; else bucket.SyncFrom(local, remote)
WorkerSyncFrom(p) ==
    /\ w[p].pc = "syncFrom"
    /\ IF job.DryRun
       THEN /\ w' = [w EXCEPT ![p].pc = "inject"]
            /\ UNCHANGED <<Errors, run>>
       ELSE \E ok \in {b \in BOOLEAN : b => bucket.state = "open"} :
            LET rec == [w[p] EXCEPT !.invoked = Append(@, "SyncFrom")]
            IN IF ok
               THEN /\ w' = [w EXCEPT ![p] = [rec EXCEPT !.pc = "inject",
                                                         !.fs = job.remote,
                                                         !.dirs = {f[1] : f \in job.remote}]]
                    /\ UNCHANGED <<Errors, run>>
               ELSE /\ Errors' = addError(Errors, Wrap("sync from", p))
                    /\ Leave(p, "failed", rec)
    /\ UNCHANGED <<api, job, env, Output, IsComplete, workingDirs, bucket>>

\* the injection step that pays no attention to j.DryRun
WorkerInject_IgnoreDryRun(p) ==
    /\ w[p].pc = "inject"
    /\ w' = [w EXCEPT ![p].pc = "injectPackage",
                      ![p].invoked = Append(@, "injectNewPackages"),
                      ![p].todo = Route(job.release),
                      ![p].changed = <<>>,
                      ![p].injErrs = 0]
    /\ UNCHANGED <<api, job, env, Errors, Output, IsComplete, workingDirs, bucket, run>>

\* job.go 334-340, 170-174: dry run logs; else injectNewPackages(local) starts
WorkerInject(p) ==
    /\ w[p].pc = "inject"
    /\ IF job.DryRun
       THEN w' = [w EXCEPT ![p].pc = "rebuild"]
       ELSE w' = [w EXCEPT ![p].pc = "injectPackage",
                           ![p].invoked = Append(@, "injectNewPackages"),
                           ![p].todo = Route(job.release),
                           ![p].changed = <<>>,
                           ![p].injErrs = 0]
    /\ UNCHANGED <<api, job, env, Errors, Output, IsComplete, workingDirs, bucket, run>>

\* whether the injectPackage shim of job.go 390-405 finds a builder for the job
Supported(name) == name \in {"build-deb-repo", "build-rpm-repo"}

\* job.go 177/185/194/201, 390-405: injectPackage(j, local, repoName): the
\* shim dispatches on the job type name; a supported builder enters
\* linkPackages(dest) (job.go 121-124), an unsupported one returns an error
InjectPackage(p) ==
    /\ w[p].pc = "injectPackage"
    /\ w[p].todo # <<>>
    /\ IF Supported(job.TypeName)
       THEN w' = [w EXCEPT ![p].pc = "link",
                           ![p].repos = Append(@, Head(w[p].todo)),
                           ![p].dest = Head(w[p].todo),
                           ![p].i = 1,
                           ![p].lcatch = 0,
                           ![p].lwg = 0,
                           ![p].resolved = "unset",
                           ![p].linked = {},
                           ![p].sign = [k \in 1..Len(job.PackagePaths) |-> "none"],
                           ![p].signCalls = [k \in 1..Len(job.PackagePaths) |-> 0]]
       ELSE w' = [w EXCEPT ![p].repos = Append(@, Head(w[p].todo)),
                           ![p].todo = Tail(@), ![p].injErrs = @ + 1]
    /\ UNCHANGED <<api, job, env, Errors, Output, IsComplete, workingDirs, bucket, run>>

\* os.Stat that reports every mirror as missing
Mirrored_Never(fsys, mirror) == FALSE

\* job.go 143: os.Stat(mirror) does not report the mirror as missing
Mirrored(fsys, mirror) == mirror \in fsys

\* job.go 125-165: one iteration of the loop over j.PackagePaths
LinkPackage(p) ==
    /\ w[p].pc = "link"
    /\ w[p].i <= Len(job.PackagePaths)
    /\ LET k == w[p].i
           pkg == job.PackagePaths[k]
           dest == w[p].dest
           mirror == <<dest, Base(pkg)>>
           next == [w[p] EXCEPT !.i = @ + 1]
       IN IF job.DistroType = DEB /\ ~HasSuffixDeb(pkg)
          THEN w' = [w EXCEPT ![p] = next]
          ELSE \E mk \in {b \in BOOLEAN : dest \in w[p].dirs => b} :
               \E ln \in {b \in BOOLEAN : b => (mk /\ mirror \notin w[p].fs)} :
               LET made == [next EXCEPT !.dirs = IF mk THEN @ \cup {dest} ELSE @,
                                        !.lcatch = IF mk THEN @ ELSE @ + 1]
               IN IF Mirrored(w[p].fs, mirror)
                  THEN w' = [w EXCEPT ![p] = made]
                  ELSE IF ~ln
                  THEN w' = [w EXCEPT ![p] = [made EXCEPT !.lcatch = @ + 1]]
                  ELSE LET linked == [made EXCEPT !.fs = @ \cup {mirror},
                                                  !.linked = @ \cup {k}]
                       IN IF job.DistroType = RPM
                          THEN w' = [w EXCEPT ![p] = [linked EXCEPT !.lwg = @ + 1,
                                                                    !.sign[k] = "launched"]]
                          ELSE w' = [w EXCEPT ![p] = linked]
    /\ UNCHANGED <<api, job, env, Errors, Output, IsComplete, workingDirs, bucket, run>>

\* job.go 167: the operand of return, catcher.Resolve(), is evaluated before
\* the deferred wg.Wait() of job.go 124 runs
LinkResolve(p) ==
    /\ w[p].pc = "link"
    /\ w[p].i > Len(job.PackagePaths)
    /\ w' = [w EXCEPT ![p].pc = "linkWait",
                      ![p].resolved = IF w[p].lcatch > 0 THEN "err" ELSE "nil"]
    /\ UNCHANGED <<api, job, env, Errors, Output, IsComplete, workingDirs, bucket, run>>

\* the sub-repository paths the distro builder's injectPackage reports as
\* changed after linkPackages(dest) linked the packages in `linked`
ChangedBy(dest, linked) == IF linked # {} THEN <<dest>> ELSE <<>>

\* what a call of linkPackages(dest) by the worker of path p did, as its
\* caller sees it on return: the error returned, the links created, the
\* signing tasks launched, and the files then in the workspace
Returns(p) ==
    [dest |-> w[p].dest, ret |-> w[p].resolved, linked |-> w[p].linked,
     launched |-> {k \in DOMAIN w[p].sign : w[p].sign[k] # "none"},
     fs |-> w[p].fs]

\* linkPackages without the deferred wg.Wait() of job.go 124
LinkReturn_NoWait(p) ==
    /\ w[p].pc = "linkWait"
    /\ w' = [w EXCEPT ![p].pc = "injectPackage",
                      ![p].todo = Tail(@),
                      ![p].injErrs = IF w[p].resolved = "err" THEN @ + 1 ELSE @,
                      ![p].changed = @ \o ChangedBy(w[p].dest, w[p].linked),
                      ![p].hist = Append(@, Returns(p))]
    /\ UNCHANGED <<api, job, env, Errors, Output, IsComplete, workingDirs, bucket, run>>

\* job.go 124: the deferred wg.Wait() passes and linkPackages returns the
\* resolved error; the builder's injectPackage hands it, with the changed
\* paths, to injectNewPackages (job.go 177-203: catcher.Add, append)
LinkReturn(p) ==
    /\ w[p].pc = "linkWait"
    /\ w[p].lwg = 0
    /\ w' = [w EXCEPT ![p].pc = "injectPackage",
                      ![p].todo = Tail(@),
                      ![p].injErrs = IF w[p].resolved = "err" THEN @ + 1 ELSE @,
                      ![p].changed = @ \o ChangedBy(w[p].dest, w[p].linked),
                      ![p].hist = Append(@, Returns(p))]
    /\ UNCHANGED <<api, job, env, Errors, Output, IsComplete, workingDirs, bucket, run>>

\* job.go 225-231: the credential signFile selects
Token == IF job.DistroType = DEB /\ job.release.series = "3.0"
         THEN env.NOTARY_TOKEN_DEB_LEGACY
         ELSE env.NOTARY_TOKEN

\* signFile that keeps the signer's output only when the signer succeeded
SignFile_DropOnFailure(p, k) ==
    /\ k \in DOMAIN w[p].sign
    /\ w[p].sign[k] = "launched"
    /\ IF Token = ""
       THEN /\ w' = [w EXCEPT ![p].sign[k] = "err",
                              ![p].signCalls[k] = @ + 1,
                              ![p].signErrs = @ + 1]
            /\ UNCHANGED Output
       ELSE \E ok \in BOOLEAN :
            /\ Output' = IF ok
                         THEN (<<"sign-", p, w[p].dest, Base(job.PackagePaths[k])>>
                                 :> "signed") @@ Output
                         ELSE Output
            /\ w' = [w EXCEPT ![p].sign[k] = IF ok THEN "nil" ELSE "err",
                              ![p].signCalls[k] = @ + 1,
                              ![p].execs = @ + 1,
                              ![p].signErrs = IF ok THEN @ ELSE @ + 1]
    /\ UNCHANGED <<api, job, env, Errors, IsComplete, workingDirs, bucket, run>>

\* job.go 155-157, 217-290: the signing goroutine calls signFile(mirror, "", true)
SignFile(p, k) ==
    /\ k \in DOMAIN w[p].sign
    /\ w[p].sign[k] = "launched"
    /\ IF Token = ""
       THEN /\ w' = [w EXCEPT ![p].sign[k] = "err",
                              ![p].signCalls[k] = @ + 1,
                              ![p].signErrs = @ + 1]
            /\ UNCHANGED Output
       ELSE \E ok \in BOOLEAN :
            /\ Output' = (<<"sign-", p, w[p].dest, Base(job.PackagePaths[k])>>
                            :> (IF ok THEN "signed" ELSE "failed")) @@ Output
            /\ w' = [w EXCEPT ![p].sign[k] = IF ok THEN "nil" ELSE "err",
                              ![p].signCalls[k] = @ + 1,
                              ![p].execs = @ + 1,
                              ![p].signErrs = IF ok THEN @ ELSE @ + 1]
    /\ UNCHANGED <<api, job, env, Errors, IsComplete, workingDirs, bucket, run>>

\* job.go 157-158: catcher.Add(<signFile's error>); wg.Done()
SignDone(p, k) ==
    /\ k \in DOMAIN w[p].sign
    /\ w[p].sign[k] \in {"nil", "err"}
    /\ w' = [w EXCEPT ![p].sign[k] = "done",
                      ![p].lcatch = IF w[p].sign[k] = "err" THEN @ + 1 ELSE @,
                      ![p].lwg = @ - 1]
    /\ UNCHANGED <<api, job, env, Errors, Output, IsComplete, workingDirs, bucket, run>>

\* job.go 207, 340-345: injectNewPackages returns (changedRepos,
\* catcher.Resolve()); Run records a failure and leaves the worker
InjectReturn(p) ==
    /\ w[p].pc = "injectPackage"
    /\ w[p].todo = <<>>
    /\ IF w[p].injErrs > 0
       THEN /\ Errors' = addError(Errors, Wrap("copying packages", p))
            /\ Leave(p, "failed", w[p])
       ELSE /\ w' = [w EXCEPT ![p].pc = "rebuild",
                              ![p].dest = "", ![p].i = 0, ![p].lcatch = 0,
                              ![p].resolved = "unset", ![p].linked = {},
                              ![p].sign = <<>>, ![p].signCalls = <<>>,
                              ![p].hist = <<>>]
            /\ UNCHANGED <<Errors, run>>
    /\ UNCHANGED <<api, job, env, Output, IsComplete, workingDirs, bucket>>

\* job.go 347-351: rWg.Add(1); go rebuildRepo(j, dir, rWg) for every changed repo
WorkerRebuild(p) ==
    /\ w[p].pc = "rebuild"
    /\ w' = [w EXCEPT ![p].pc = "rebuildWait",
                      ![p].rwg = Len(w[p].changed),
                      ![p].rtask = [k \in 1..Len(w[p].changed) |-> "launched"],
                      ![p].invoked = @ \o [k \in 1..Len(w[p].changed) |-> "rebuildRepo"]]
    /\ UNCHANGED <<api, job, env, Errors, Output, IsComplete, workingDirs, bucket, run>>

\* the distro builder's rebuildRepo(workingDir, wg): regenerates the metadata
\* of one sub-repository, records a failure on the job, and signals wg
BuilderRebuildRepo(p, k, ok) ==
    /\ Errors' = IF ok THEN Errors ELSE addError(Errors, Wrap("rebuilding repo", p))
    /\ w' = [w EXCEPT ![p].rtask[k] = "done", ![p].rwg = @ - 1]

\* job.go 407-427: the rebuildRepo shim, run by one goroutine per changed repo
RebuildRepo(p, k) ==
    /\ k \in DOMAIN w[p].rtask
    /\ w[p].rtask[k] = "launched"
    /\ IF Supported(job.TypeName)
       THEN \E ok \in BOOLEAN : BuilderRebuildRepo(p, k, ok)
       ELSE /\ Errors' = addError(Errors, Wrap("builder is not supported", p))
            /\ w' = [w EXCEPT ![p].rtask[k] = "returned"]
    /\ UNCHANGED <<api, job, env, Output, IsComplete, workingDirs, bucket, run>>

\* the upload check without the rWg.Wait() of job.go 352
WorkerCheck_NoWait(p) ==
    /\ w[p].pc = "rebuildWait"
    /\ LET rec == [w[p] EXCEPT !.sawErrors = IF hasErrors THEN "errors" ELSE "empty"]
       IN IF hasErrors
          THEN Leave(p, "skipped", rec)
          ELSE IF job.DryRun
          THEN Leave(p, "dryrun", rec)
          ELSE /\ w' = [w EXCEPT ![p] = [rec EXCEPT !.pc = "syncTo"]]
               /\ UNCHANGED run
    /\ UNCHANGED <<api, job, env, Errors, Output, IsComplete, workingDirs, bucket>>

\* job.go 352-367: rWg.Wait(), then the hasErrors() check that gates the
\* upload; a dry run stops after logging
WorkerCheck(p) ==
    /\ w[p].pc = "rebuildWait"
    /\ w[p].rwg = 0
    /\ LET rec == [w[p] EXCEPT !.sawErrors = IF hasErrors THEN "errors" ELSE "empty"]
       IN IF hasErrors
          THEN Leave(p, "skipped", rec)
          ELSE IF job.DryRun
          THEN Leave(p, "dryrun", rec)
          ELSE /\ w' = [w EXCEPT ![p] = [rec EXCEPT !.pc = "syncTo"]]
               /\ UNCHANGED run
    /\ UNCHANGED <<api, job, env, Errors, Output, IsComplete, workingDirs, bucket>>

\* job.go 369-375: bucket.SyncTo(local, remote)
WorkerSyncTo(p) ==
    /\ w[p].pc = "syncTo"
    /\ \E ok \in {b \in BOOLEAN : b => bucket.state = "open"} :
        LET rec == [w[p] EXCEPT !.invoked = Append(@, "SyncTo")]
        IN IF ok
           THEN /\ Leave(p, "uploaded", rec)
                /\ UNCHANGED Errors
           ELSE /\ Errors' = addError(Errors, Wrap("sync to", p))
                /\ Leave(p, "failed", rec)
    /\ UNCHANGED <<api, job, env, Output, IsComplete, workingDirs, bucket>>

\* ------------------------------------------------------------------ system
Next ==
    \/ RunOpen
    \/ RunSpawn
    \/ RunWait
    \/ RunMarkComplete
    \/ RunClose
    \/ RunReturn
    \/ \E p \in Paths : WorkerStart(p)
    \/ \E p \in Paths : WorkerMkdir(p)
    \/ \E p \in Paths : WorkerSyncFrom(p)
    \/ \E p \in Paths : WorkerInject(p)
    \/ \E p \in Paths : InjectPackage(p)
    \/ \E p \in Paths : LinkPackage(p)
    \/ \E p \in Paths : LinkResolve(p)
    \/ \E p \in Paths : LinkReturn(p)
    \/ \E p \in Paths : \E k \in DOMAIN w[p].sign : SignFile(p, k)
    \/ \E p \in Paths : \E k \in DOMAIN w[p].sign : SignDone(p, k)
    \/ \E p \in Paths : InjectReturn(p)
    \/ \E p \in Paths : WorkerRebuild(p)
    \/ \E p \in Paths : \E k \in DOMAIN w[p].rtask : RebuildRepo(p, k)
    \/ \E p \in Paths : WorkerCheck(p)
    \/ \E p \in Paths : WorkerSyncTo(p)

\* what can already be published under a path's remote prefix: copies of the
\* job's packages in the sub-repositories its release is routed to
Mirrorable(j) == {<<d, Base(pk)>> : d \in Range(Route(j.release)), pk \in Range(j.PackagePaths)}

rpmPkg == [dir |-> "build", base |-> "a", ext |-> "rpm"]
debPkg == [dir |-> "build", base |-> "a", ext |-> "deb"]
nightly == [dev |-> TRUE, rc |-> FALSE, stable |-> FALSE, devSeries |-> TRUE, series |-> "3.2"]
stableRelease == [dev |-> FALSE, rc |-> FALSE, stable |-> TRUE, devSeries |-> FALSE, series |-> "3.2"]

\* the jobs of the fan-out specification: a DEB builder and an unknown
\* builder type over every number of paths, with and without dry run, and an
\* RPM builder (whose packages are signed) on one path
RunJobs ==
    [nRepos : 0..NumPaths, DryRun : BOOLEAN,
     TypeName : {"build-deb-repo", "build-repo"}, DistroType : {DEB},
     PackagePaths : {<<debPkg>>}, release : {nightly}, remote : {{}}]
    \cup
    [nRepos : {1}, DryRun : {FALSE},
     TypeName : {"build-rpm-repo"}, DistroType : {RPM},
     PackagePaths : {<<rpmPkg>>}, release : {nightly}, remote : {{}}]

RunEnvs == [NOTARY_TOKEN : {"tok"}, NOTARY_TOKEN_DEB_LEGACY : {""}]

Init == \E j \in RunJobs, e \in RunEnvs : NewJob([job |-> j, env |-> e])

Spec == Init /\ [][Next]_vars

\* builder type and distro type as the job constructors pair them, and
\* the bare build-repo type of buildRepoJob
Builders == {<<"build-deb-repo", DEB>>, <<"build-rpm-repo", RPM>>, <<"build-repo", RPM>>}

\* the jobs of the injection specification: one path, every builder, package
\* lists up to MaxPkgs, a one- and a two-repository release, a remote mirror
\* that is empty or already holds the packages
LinkJobs ==
    UNION {[nRepos : {1}, DryRun : {FALSE}, TypeName : {b[1]},
            DistroType : {b[2]}, PackagePaths : {pl}, release : {r},
            remote : {{}, Mirrorable([PackagePaths |-> pl, release |-> r])}]
           : b \in Builders, pl \in PackageLists, r \in {nightly, stableRelease}}

LinkEnvs == [NOTARY_TOKEN : {"", "tok"}, NOTARY_TOKEN_DEB_LEGACY : {""}]

InitLink == \E j \in LinkJobs, e \in LinkEnvs : NewJob([job |-> j, env |-> e])

SpecLink == InitLink /\ [][Next]_vars

\* the jobs of the routing specification: one path, an RPM builder and the
\* bare build-repo type, one package, every combination of the release
\* predicates
RouteJobs ==
    [nRepos : {1}, DryRun : {FALSE}, TypeName : {"build-rpm-repo", "build-repo"},
     DistroType : {RPM}, PackagePaths : {<<rpmPkg>>}, release : Releases,
     remote : {{}}]

InitRoute == \E j \in RouteJobs, e \in RunEnvs : NewJob([job |-> j, env |-> e])

SpecRoute == InitRoute /\ [][Next]_vars

\* the jobs whose linkPackages is called twice: a DEB and an RPM builder,
\* package lists up to MaxPkgs, a workspace that is empty or already holds the
\* packages
TwiceJobs ==
    UNION {[nRepos : {1}, DryRun : {FALSE}, TypeName : {b[1]},
            DistroType : {b[2]}, PackagePaths : {pl}, release : {nightly},
            remote : {{}, Mirrorable([PackagePaths |-> pl, release |-> nightly])}]
           : b \in {<<"build-deb-repo", DEB>>, <<"build-rpm-repo", RPM>>},
             pl \in PackageLists}

\* a builder about to call linkPackages twice with the same destination, in
\* the workspace of path 1 as the download left it
InitTwice ==
    \E j \in TwiceJobs, e \in LinkEnvs :
        NewJob([job |-> j, env |-> e])

\* job.go 121: linkPackages(dest) is about to be called twice with one dest
StartTwice(p) ==
    /\ w[p].pc = "idle"
    /\ p = 1
    /\ w' = [w EXCEPT ![p].pc = "injectPackage",
                      ![p].todo = <<"testing", "testing">>,
                      ![p].fs = job.remote,
                      ![p].dirs = {f[1] : f \in job.remote}]
    /\ UNCHANGED <<api, job, env, Errors, Output, IsComplete, workingDirs, bucket, run>>

NextTwice ==
    \/ \E p \in Paths : StartTwice(p)
    \/ \E p \in Paths : InjectPackage(p)
    \/ \E p \in Paths : LinkPackage(p)
    \/ \E p \in Paths : LinkResolve(p)
    \/ \E p \in Paths : LinkReturn(p)
    \/ \E p \in Paths : \E k \in DOMAIN w[p].sign : SignFile(p, k)
    \/ \E p \in Paths : \E k \in DOMAIN w[p].sign : SignDone(p, k)

SpecTwice == InitTwice /\ [][NextTwice]_vars

\* ------------------------------------------------- the job's other methods
\* Dependency()
Dependency == D

\* the method calls started so far
Started == last.n + Cardinality({c \in Callers : cl[c].pc # "idle"})

\* caller c returns from method op, called with arg, with result ret
Returned(c, op, arg, ret) ==
    last' = [n |-> last.n + 1, by |-> c, op |-> op, arg |-> arg, ret |-> ret]

\* SetDependency that installs whatever manager it is given
SetDependency_Any(c, d) ==
    /\ cl[c].pc = "idle"
    /\ Started < MaxCalls
    /\ D' = d
    /\ Returned(c, "SetDependency", d, NilErr)
    /\ UNCHANGED <<job, env, Errors, Output, IsComplete, workingDirs, bucket, run, w,
                   mutex, cl, passed>>

\* job.go 72-78: SetDependency(d) keeps d only if its type is AlwaysRun, and
\* warns otherwise
SetDependency(c, d) ==
    /\ cl[c].pc = "idle"
    /\ Started < MaxCalls
    /\ D' = IF d.type = AlwaysRun THEN d ELSE D
    /\ Returned(c, "SetDependency", d,
                IF d.type = AlwaysRun THEN NilErr ELSE [op |-> "warning"])
    /\ UNCHANGED <<job, env, Errors, Output, IsComplete, workingDirs, bucket, run, w,
                   mutex, cl, passed>>

\* the errors a caller passes to addError: nil, or an error of its own
CallerErrs(c) == {NilErr, [op |-> "test", path |-> c, seq |-> Started]}

\* job.go 84-85: addError(err) is called; a nil error returns at once
AddErrorCall(c, err) ==
    /\ cl[c].pc = "idle"
    /\ Started < MaxCalls
    /\ IF err = NilErr
       THEN /\ Returned(c, "addError", err, NilErr)
            /\ UNCHANGED <<cl, passed>>
       ELSE /\ cl' = [cl EXCEPT ![c].pc = "lock", ![c].err = err]
            /\ passed' = Append(passed, err)
            /\ UNCHANGED last
    /\ UNCHANGED <<job, env, Errors, Output, IsComplete, workingDirs, bucket, run, w,
                   D, mutex>>

\* addError that goes on to append without taking j.mutex
AddErrorLock_NoMutex(c) ==
    /\ cl[c].pc = "lock"
    /\ cl' = [cl EXCEPT ![c].pc = "append", ![c].snap = Errors]
    /\ UNCHANGED <<job, env, Errors, Output, IsComplete, workingDirs, bucket, run, w,
                   D, mutex, passed, last>>

\* job.go 86, 89: j.mutex.Lock(), then append reads the slice j.Errors
AddErrorLock(c) ==
    /\ cl[c].pc = "lock"
    /\ mutex = 0
    /\ mutex' = c
    /\ cl' = [cl EXCEPT ![c].pc = "append", ![c].snap = Errors]
    /\ UNCHANGED <<job, env, Errors, Output, IsComplete, workingDirs, bucket, run, w,
                   D, passed, last>>

\* job.go 87, 89: append stores the extended slice in j.Errors, and the
\* deferred j.mutex.Unlock() runs
AddErrorAppend(c) ==
    /\ cl[c].pc = "append"
    /\ Errors' = addError(cl[c].snap, cl[c].err)
    /\ mutex' = IF mutex = c THEN 0 ELSE mutex
    /\ cl' = [cl EXCEPT ![c] = NewCaller]
    /\ Returned(c, "addError", cl[c].err, NilErr)
    /\ UNCHANGED <<job, env, Output, IsComplete, workingDirs, bucket, run, w,
                   D, passed>>

\* job.go 104-119: Error() under the read lock
ErrorCall(c) ==
    /\ cl[c].pc = "idle"
    /\ Started < MaxCalls
    /\ mutex = 0
    /\ Returned(c, "Error", NilErr, Error)
    /\ UNCHANGED <<job, env, Errors, Output, IsComplete, workingDirs, bucket, run, w,
                   D, mutex, cl, passed>>

NextApi ==
    \/ \E c \in Callers, d \in Managers : SetDependency(c, d)
    \/ \E c \in Callers : \E err \in CallerErrs(c) : AddErrorCall(c, err)
    \/ \E c \in Callers : AddErrorLock(c)
    \/ \E c \in Callers : AddErrorAppend(c)
    \/ \E c \in Callers : ErrorCall(c)

\* a job as buildRepoJob() returns it, before Run, with its methods called
\* from NumCallers goroutines
InitApi ==
    NewJob([job |-> [nRepos |-> 0, DryRun |-> FALSE, TypeName |-> "build-repo",
                     DistroType |-> DEB, PackagePaths |-> <<>>, release |-> nightly,
                     remote |-> {}],
            env |-> [NOTARY_TOKEN |-> "", NOTARY_TOKEN_DEB_LEGACY |-> ""]])

SpecApi == InitApi /\ [][NextApi]_vars

\* fairness: the Go scheduler runs every runnable goroutine, and every
\* external call returns
FairSpec == Spec /\ WF_vars(Next)

\* the jobs whose rebuildRepo shim is invoked: every job type name, on
\* every path
ShimJobs ==
    [nRepos : {NumPaths}, DryRun : {FALSE}, TypeName : JobTypeNames,
     DistroType : {RPM}, PackagePaths : {<<rpmPkg>>}, release : {stableRelease},
     remote : {{}}]

\* the changed sub-repositories a caller hands to the shim, one invocation each
ChangedLists == {<<"3.2">>, <<"3.2", "stable">>}

InitShim == \E j \in ShimJobs, e \in RunEnvs : NewJob([job |-> j, env |-> e])

\* job.go 347: callers that hold a list of changed repos are about to add one
\* to a wait group per entry, start the shim for it and wait, as the workers
\* of Run do; the bucket is open and Run is at its join
ShimSetup ==
    /\ run.pc = "open"
    /\ \E chs \in [Paths -> ChangedLists] :
        w' = [p \in Paths |-> [NewWorker EXCEPT !.pc = "rebuild", !.changed = chs[p]]]
    /\ run' = [run EXCEPT !.pc = "spawn", !.next = job.nRepos + 1, !.wg = job.nRepos,
                          !.defers = <<"Close", "markComplete">>]
    /\ bucket' = [bucket EXCEPT !.opens = @ + 1, !.state = "open", !.openResult = "ok"]
    /\ UNCHANGED <<api, job, env, Errors, Output, IsComplete, workingDirs>>

NextShim ==
    \/ ShimSetup
    \/ \E p \in Paths : WorkerRebuild(p)
    \/ \E p \in Paths : \E k \in DOMAIN w[p].rtask : RebuildRepo(p, k)
    \/ \E p \in Paths : WorkerCheck(p)
    \/ \E p \in Paths : WorkerSyncTo(p)

SpecShim == InitShim /\ [][NextShim]_vars

\* fairness: every started goroutine is scheduled
FairSpecShim == SpecShim /\ WF_vars(NextShim)

\* ------------------------------------------------------------- properties
Invoked(p, step) == step \in Range(w[p].invoked)

Running(p) == w[p].pc \notin {"idle", "done"}

\* the errors the worker of path p recorded itself before its upload check
OwnError(p) ==
    \E k \in DOMAIN Errors :
        /\ Errors[k].path = p
        /\ Errors[k].op \in {"creating directory", "sync from", "copying packages",
                             "rebuilding repo", "builder is not supported"}

\* C1: a path uploads (SyncTo) only if the job's error list was empty when
\* its worker made the check after the rebuild, and a path that recorded an
\* error of its own workspace creation, download, injection or rebuild never
\* uploads.
C1_UploadOnlyWithoutErrors ==
    \A p \in Paths :
        /\ (w[p].pc = "syncTo" \/ Invoked(p, "SyncTo")) => w[p].sawErrors = "empty"
        /\ OwnError(p) => ~(w[p].pc = "syncTo" \/ Invoked(p, "SyncTo"))

C1_Witness ==
    \E p, q \in Paths :
        /\ Invoked(p, "SyncTo") /\ w[p].sawErrors = "empty"
        /\ Invoked(p, "rebuildRepo")
        /\ OwnError(q) /\ w[q].pc = "done" /\ Invoked(q, "rebuildRepo")

\* C2 (as claimed): two paths, no dry run, the download of exactly one path
\* fails and nothing else does: when Run has returned the failing path has not
\* uploaded, the other path has downloaded, injected, rebuilt and uploaded,
\* and Error() is non-nil.
C2_FailureIsolation ==
    \A q \in Paths :
        (/\ run.pc = "returned"
         /\ job.nRepos = 2
         /\ ~job.DryRun
         /\ Supported(job.TypeName)
         /\ Errors = <<Wrap("sync from", q)>>)
        => /\ ~Invoked(q, "SyncTo")
           /\ Error # NilErr
           /\ \A p \in 1..job.nRepos :
                p # q => w[p].invoked = <<"MkdirAll", "SyncFrom", "injectNewPackages",
                                          "rebuildRepo", "SyncTo">>

\* the steps of a path in the order Run takes them
Rank(step) ==
    CASE step = "MkdirAll" -> 1
      [] step = "SyncFrom" -> 2
      [] step = "injectNewPackages" -> 3
      [] step = "rebuildRepo" -> 4
      [] step = "SyncTo" -> 5

SignTasksDone(p) == \A k \in DOMAIN w[p].sign : w[p].sign[k] \in {"none", "done"}

RebuildTasksDone(p) == \A k \in DOMAIN w[p].rtask : w[p].rtask[k] = "done"

\* C3: the steps of one path run in the order download, injection, rebuild,
\* upload, each after the one before it was invoked; no signing task is still
\* running once injection is over, and every rebuildRepo launched has
\* signalled before the upload starts.
C3_StepsSequential ==
    \A p \in Paths :
        LET inv == w[p].invoked
        IN /\ \A a, b \in DOMAIN inv :
                a < b => /\ Rank(inv[a]) <= Rank(inv[b])
                         /\ Rank(inv[a]) = Rank(inv[b]) => inv[a] = "rebuildRepo"
           /\ ~job.DryRun =>
                /\ Invoked(p, "injectNewPackages") => Invoked(p, "SyncFrom")
                /\ w[p].pc \in {"rebuild", "rebuildWait", "syncTo"}
                      => Invoked(p, "injectNewPackages")
                /\ Invoked(p, "SyncTo") => Invoked(p, "injectNewPackages")
           /\ w[p].pc \notin {"link", "linkWait"} => SignTasksDone(p)
           /\ w[p].rtask # <<>> => w[p].pc \in {"rebuildWait", "syncTo", "done"}
           /\ (w[p].pc = "syncTo" \/ Invoked(p, "SyncTo")) => RebuildTasksDone(p)

C3_Witness ==
    \E p \in Paths :
        /\ w[p].outcome = "uploaded"
        /\ w[p].invoked = <<"MkdirAll", "SyncFrom", "injectNewPackages",
                            "rebuildRepo", "rebuildRepo", "SyncTo">>
        /\ job.DistroType = RPM
        /\ Cardinality(DOMAIN Output) = 4

\* C4 (as claimed): whenever Run has returned, Completed() is true.
C4_ReturnedIsComplete == run.pc = "returned" => Completed

\* C5: Completed() is false for a new job, never goes back to false, and is
\* never true while a path worker or one of its tasks is still running.
C5_CompletedMonotoneAndLate ==
    /\ ~Completed
    /\ [][Completed => Completed']_vars
    /\ [](Completed => \A p \in Paths : ~Running(p) /\ SignTasksDone(p) /\ RebuildTasksDone(p))

C5_Witness ==
    /\ Completed
    /\ \E p, q \in Paths : w[p].outcome = "uploaded" /\ w[q].outcome = "failed"

\* C6: if opening the bucket fails, no path is processed (no worker, no
\* workspace, no download, injection, signing, rebuild or upload), exactly one
\* error, the open failure, is recorded, and Error() is non-nil.
C6_OpenFailureAbortsJob ==
    bucket.openResult = "failed" =>
        /\ \A p \in Paths : w[p] = NewWorker
        /\ workingDirs = <<>>
        /\ Output = <<>>
        /\ Errors = <<Wrap("opening bucket", 0)>>
        /\ Error # NilErr

C6_Witness ==
    /\ bucket.openResult = "failed"
    /\ run.pc = "returned"
    /\ job.nRepos = 2

\* C7: Open is called once, before any path worker starts; Close is called
\* at most once, exactly once by the time Run returns (also after a failed
\* Open), and only when no worker is running, so no transfer is started or in
\* progress on a closed bucket; a step that opens or closes the bucket is a
\* step of Run, not of a worker.
C7_BucketBracketsFanOut ==
    /\ [](/\ bucket.opens <= 1
          /\ bucket.closes <= 1
          /\ (\E p \in Paths : w[p].pc # "idle") => bucket.opens = 1
          /\ run.pc = "returned" => bucket.closes = 1
          /\ bucket.closes > 0 => \A p \in Paths : ~Running(p))
    /\ [][bucket' # bucket => (w' = w /\ run' # run)]_vars

C7_Witness ==
    /\ bucket.closes = 1
    /\ bucket.openResult = "ok"
    /\ \E p, q \in Paths : w[p].outcome = "uploaded" /\ w[q].outcome = "failed"

Terminal(p) == w[p].pc = "done" /\ w[p].outcome \in {"uploaded", "skipped", "failed", "dryrun"}

\* C8: Run returns in every fair run, whatever fails, and by then every path
\* worker it launched has ended uploaded, skipped or failed (or, in a dry run,
\* logged).
C8_RunTerminates ==
    <>(/\ run.pc = "returned"
       /\ bucket.openResult = "ok" => \A p \in 1..job.nRepos : Terminal(p))

C8_Witness ==
    /\ run.pc = "returned"
    /\ \E p, q \in Paths : w[p].outcome = "failed" /\ w[q].outcome = "uploaded"

\* C9: with an RPM distro, signFile is attempted at most once per package and
\* only for a package linkPackages newly linked, and once linkPackages has
\* returned every newly linked package has been attempted exactly once and no
\* signing task is still running.
C9_OneSigningPerLinkedPackage ==
    \A p \in Paths :
        job.DistroType = RPM =>
            \A k \in DOMAIN w[p].sign :
                /\ w[p].signCalls[k] <= (IF k \in w[p].linked THEN 1 ELSE 0)
                /\ w[p].sign[k] # "none" => k \in w[p].linked
                /\ w[p].pc \notin {"link", "linkWait"} =>
                      /\ w[p].sign[k] \in {"none", "done"}
                      /\ k \in w[p].linked => w[p].signCalls[k] = 1

C9_Witness ==
    \E p \in Paths :
        /\ job.DistroType = RPM
        /\ w[p].pc = "injectPackage"
        /\ w[p].resolved # "unset"
        /\ w[p].linked # {}
        /\ w[p].linked # DOMAIN w[p].sign
        /\ \A k \in w[p].linked : w[p].signCalls[k] = 1

\* C10 (as claimed): with the credential of the selected key missing, signFile
\* never runs the external signer, the error linkPackages returns after
\* launching a signing task is non-nil, and Error() is non-nil once Run has
\* returned.
C10_MissingCredentialReported ==
    \A p \in Paths :
        (Token = "" /\ job.DistroType = RPM) =>
            /\ w[p].execs = 0
            /\ (w[p].pc = "injectPackage" /\ w[p].linked # {}) => w[p].resolved = "err"
            /\ (run.pc = "returned" /\ w[p].signErrs > 0) => Error # NilErr

\* the step is the return of a call of method op
Completes(op) == last'.n = last.n + 1 /\ last'.op = op

\* C11: Dependency() is an AlwaysRun manager at all times, and a
\* SetDependency call with a manager of another type leaves it unchanged.
C11_DependencyStaysAlwaysRun ==
    /\ [](Dependency.type = AlwaysRun)
    /\ [][(Completes("SetDependency") /\ last'.arg.type # AlwaysRun)
            => Dependency' = Dependency]_vars

C11_Witness ==
    /\ Dependency = [type |-> AlwaysRun, inst |-> "given"]
    /\ last.n > 1
    /\ last.op = "SetDependency"
    /\ last.arg.type # AlwaysRun

\* the errors of caller c in a list, in the order they were added
Of(c, errs) == SelectSeq(errs, LAMBDA e : e.path = c)

\* C12: addError(nil) and Error() leave the error list unchanged; Error()
\* returns nil exactly when the list is empty and otherwise the combination of
\* the list; the list only grows by appending; and whenever no addError call is
\* in progress the list holds exactly the non-nil errors passed to addError,
\* those of each caller in the order it passed them.
C12_ErrorListIsWhatWasAdded ==
    /\ [][/\ (Completes("addError") /\ last'.arg = NilErr) => Errors' = Errors
          /\ Completes("Error") =>
                /\ Errors' = Errors
                /\ (last'.ret = NilErr) <=> (Len(Errors) = 0)
                /\ Len(Errors) # 0 => last'.ret.msgs = Errors]_vars
    /\ [][Errors' # Errors =>
            \E c \in Callers : Errors' = Append(Errors, cl[c].err) /\ cl[c].err # NilErr]_vars
    /\ []((\A c \in Callers : cl[c].pc = "idle") =>
            /\ Len(Errors) = Len(passed)
            /\ \A c \in Callers : Of(c, Errors) = Of(c, passed))

C12_Witness ==
    /\ \A c \in Callers : cl[c].pc = "idle"
    /\ Len(Errors) > 1
    /\ Errors[1].path # Errors[2].path
    /\ passed # Errors
    /\ last.op = "Error"
    /\ last.ret # NilErr

\* the worker of path p has returned from injectNewPackages
Injected(p) ==
    /\ Invoked(p, "injectNewPackages")
    /\ w[p].pc \notin {"injectPackage", "link", "linkWait"}

\* C13: for every combination of the release predicates, the sub-repositories
\* passed to injectPackage are exactly {"testing"} for a development build or
\* a release candidate, and otherwise the series, plus "stable" for a stable
\* series, plus "unstable" for a development series; each is passed once.
C13_Routing ==
    \A p \in Paths :
        LET r == job.release
            passedTo == Range(w[p].repos)
        IN /\ Injected(p) =>
                /\ (r.dev \/ r.rc) => passedTo = {"testing"}
                /\ ~(r.dev \/ r.rc) =>
                      passedTo = {r.series}
                                 \cup {x \in {"stable"} : r.stable}
                                 \cup {x \in {"unstable"} : r.devSeries}
                /\ Len(w[p].repos) = Cardinality(passedTo)
           /\ ~Invoked(p, "injectNewPackages") => w[p].repos = <<>>

C13_Witness ==
    /\ Injected(1)
    /\ ~job.release.dev /\ ~job.release.rc
    /\ job.release.stable /\ job.release.devSeries
    /\ w[1].repos = <<job.release.series, "stable", "unstable">>
    /\ w[1].outcome = "uploaded"

\* C14: in a dry run whose bucket opened, no path is downloaded, injected,
\* signed, rebuilt or uploaded; a path only has its workspace directory made.
C14_DryRunTransfersNothing ==
    (job.DryRun /\ bucket.openResult = "ok") =>
        /\ Output = <<>>
        /\ \A p \in Paths :
            /\ Range(w[p].invoked) \subseteq {"MkdirAll"}
            /\ w[p].repos = <<>> /\ w[p].sign = <<>> /\ w[p].execs = 0
            /\ w[p].rtask = <<>> /\ w[p].fs = {}
            /\ w[p].outcome \notin {"uploaded"}
            /\ w[p].outcome = "dryrun" => w[p].invoked = <<"MkdirAll">>

C14_Witness ==
    /\ job.DryRun
    /\ job.nRepos = 2
    /\ run.pc = "returned"
    /\ \A p \in 1..job.nRepos : w[p].outcome = "dryrun" /\ w[p].invoked = <<"MkdirAll">>
    /\ Len(workingDirs) = 2

\* the errors of the list that carry path p
ErrorsOf(p) == SelectSeq(Errors, LAMBDA e : e.path = p)

\* the steps a worker has invoked when the step named by the error fails
StepsUpTo(op) ==
    CASE op = "creating directory" -> <<"MkdirAll">>
      [] op = "sync from" -> <<"MkdirAll", "SyncFrom">>
      [] op = "copying packages" -> <<"MkdirAll", "SyncFrom", "injectNewPackages">>

FatalOps == {"creating directory", "sync from", "copying packages"}

\* C16: a worker whose workspace creation, download or injection failed has
\* recorded exactly one error, has ended, and has invoked no step after the
\* failed one; and the step in which it fails changes nothing of any sibling
\* worker.
C16_FailureAbortsOnlyItsPath ==
    /\ [](\A p \in Paths : \A k \in DOMAIN Errors :
            (Errors[k].path = p /\ Errors[k].op \in FatalOps) =>
                /\ Len(ErrorsOf(p)) = 1
                /\ w[p].pc = "done" /\ w[p].outcome = "failed"
                /\ w[p].invoked = StepsUpTo(Errors[k].op)
                /\ w[p].rtask = <<>>)
    /\ [][\A p \in Paths :
            (Len(Errors') > Len(Errors) /\ Errors'[Len(Errors')] \in
                {Wrap(op, p) : op \in FatalOps})
            => \A q \in Paths : q # p => w'[q] = w[q]]_vars

C16_Witness ==
    \E p, q \in Paths :
        /\ p # q
        /\ ErrorsOf(p) = <<Wrap("copying packages", p)>>
        /\ w[q].pc = "done" /\ w[q].outcome = "failed"
        /\ ErrorsOf(q) = <<Wrap("sync from", q)>>
        /\ Errors[1].path = q

\* C17 (as claimed): a job of an unrecognized builder type with at least one
\* path, whose bucket opened, has a non-nil Error() when Run has returned,
\* with or without dry run.
C17_UnknownBuilderRecorded ==
    (/\ ~Supported(job.TypeName)
     /\ job.nRepos > 0
     /\ bucket.openResult = "ok"
     /\ run.pc = "returned")
    => Error # NilErr

\* linkPackages has returned twice from calls with the same destination
RanTwice(p) ==
    /\ Len(w[p].hist) = 2
    /\ w[p].hist[1].dest = w[p].hist[2].dest

\* the second of two calls did nothing: no error, no link, no signing task,
\* the workspace as the first call left it
SecondRunIdle(p) ==
    /\ w[p].hist[2].ret = "nil"
    /\ w[p].hist[2].linked = {}
    /\ w[p].hist[2].launched = {}
    /\ w[p].hist[2].fs = w[p].hist[1].fs

\* the packages linkPackages does not skip
Considered == {k \in DOMAIN job.PackagePaths :
                 ~(job.DistroType = DEB /\ ~HasSuffixDeb(job.PackagePaths[k]))}

Stored == {p \in Paths : w[p].pc \notin {"idle", "start", "mkdir"}}

\* C18 (as claimed): no two workers are at once between the read and the
\* write of a field of the Job, and no write of a worker is lost: every
\* worker that has appended its directory to j.workingDirs has an entry there.
C18_WritesUnderMutex ==
    /\ Cardinality({p \in Paths : w[p].pc = "mkdir"}) <= 1
    /\ Len(workingDirs) = Cardinality(Stored)
    /\ Range(workingDirs) = Stored

\* the key signFile stores the output under for package k of path p
SignKey(p, k) == <<"sign-", p, w[p].dest, Base(job.PackagePaths[k])>>

\* C19: when signFile has run the signer for a file and returned, Output
\* holds that run's output under "sign-"+fileName, after a success and after a
\* failure, and a failure is what signFile returns; an entry of Output is never
\* removed or changed by another signing task; and without a credential
\* nothing is stored.
C19_SignOutputStored ==
    /\ [](\A p \in Paths : \A k \in DOMAIN w[p].sign :
            /\ (Token # "" /\ w[p].sign[k] \in {"nil", "err"}) =>
                  /\ SignKey(p, k) \in DOMAIN Output
                  /\ Output[SignKey(p, k)] = (IF w[p].sign[k] = "nil" THEN "signed" ELSE "failed")
            /\ (Token # "" /\ w[p].sign[k] = "done") => SignKey(p, k) \in DOMAIN Output
            /\ Token = "" => Output = <<>>)
    /\ [][/\ \A key \in DOMAIN Output : key \in DOMAIN Output' /\ Output'[key] = Output[key]
          /\ \A p \in Paths :
                w'[p].execs > w[p].execs => Cardinality(DOMAIN Output') = Cardinality(DOMAIN Output) + 1]_vars

C19_Witness ==
    \E p \in Paths : \E k1, k2 \in DOMAIN w[p].sign :
        /\ w[p].sign[k1] = "err" /\ w[p].sign[k2] = "nil"
        /\ {SignKey(p, k1), SignKey(p, k2)} \subseteq DOMAIN Output
        /\ Output[SignKey(p, k1)] = "failed"
        /\ Output[SignKey(p, k2)] = "signed"
        /\ Cardinality(DOMAIN Output) > 2

\* C20 (as claimed): a path in which a signing task failed never invokes
\* SyncTo.
C20_FailedSigningNeverUploads ==
    \A p \in Paths :
        w[p].signErrs > 0 => (w[p].pc # "syncTo" /\ ~Invoked(p, "SyncTo"))

\* the invocations of the shim by the worker of path p that have not returned
Pending(p) == {k \in DOMAIN w[p].rtask : w[p].rtask[k] = "launched"}

\* C21 (as claimed): for every job type name, each invocation of the
\* rebuildRepo shim that has returned has signalled the wait group once, so the
\* count left is the number of invocations still running, and a caller waiting
\* on the group always gets past its wait.
C21_ShimSignalsOnce ==
    /\ [](\A p \in Paths : w[p].pc = "rebuildWait" => w[p].rwg = Cardinality(Pending(p)))
    /\ \A p \in Paths : (w[p].pc = "rebuildWait") ~> (w[p].pc # "rebuildWait")

====
